---- MODULE Spec2Model ----
(***************************************************************************)
(* A model of the OcrScanner component of Scheme-link                      *)
(* (src/src/OcrScanner.jsx): the text helpers and field extractors as      *)
(* operators over strings, the crop geometry, the localStorage cache, and  *)
(* the upload / runOcr state machine of the React component.               *)
(*                                                                         *)
(* Texts are TLA+ strings; a character is a string of length 1, so that    *)
(* str.length is Len, str.substring is SubSeq and + is \o.                 *)
(***************************************************************************)
EXTENDS Integers, Sequences, FiniteSets, TLC

VARIABLES
    \* ---- the component's React state and its environment ----
    loading,      \* useState(false)                       (line 321)
    result,       \* useState(() => loadLastResult())      (line 320)
    stage,        \* useState("")                          (line 322)
    progress,     \* useState(0)                           (line 323)
    statusMsg,    \* useState(...)                         (line 324)
    storage,      \* localStorage[LS_KEY]: the raw item, or NoItem
    now,          \* Date.now()
    timers,       \* pending setTimeout(() => setProgress(0), 1000) callbacks
    runs,         \* one entry per handleUpload invocation that got a file
    extractLog,   \* the records handed to onExtract, in order
    lastLoad,     \* what the last loadLastResult call returned, and whether
                  \* it removed the item
    \* ---- inputs and outputs of the pure helpers ----
    text1, text2, \* the texts a helper is applied to
    fnOp,         \* which helper was applied ("none" before)
    fnOut,        \* what it returned
    \* ---- cropToBlob ----
    imgW, imgH,   \* img.naturalWidth, img.naturalHeight
    cropRect      \* the source rectangle handed to drawImage

compVars == <<loading, result, stage, progress, statusMsg, storage, now,
              timers, runs, extractLog, lastLoad>>
fnVars   == <<text1, text2, fnOp, fnOut>>
cropVars == <<imgW, imgH, cropRect>>
vars     == <<compVars, fnVars, cropVars>>

\* JavaScript's null and undefined
Null      == "<null>"
Undefined == "<undefined>"
\* the sentinel of a field that was not extracted
NotFound  == "Not found"

-----------------------------------------------------------------------------
(* Characters and the regular-expression character classes                 *)

UpperChars == {"A","B","C","D","E","F","G","H","I","J","K","L","M",
               "N","O","P","Q","R","S","T","U","V","W","X","Y","Z"}
LowerChars == {"a","b","c","d","e","f","g","h","i","j","k","l","m",
               "n","o","p","q","r","s","t","u","v","w","x","y","z"}
DigitChars == {"0","1","2","3","4","5","6","7","8","9"}
AlphaChars == UpperChars \cup LowerChars
\* \w of a regular expression without the u flag
WordChars  == AlphaChars \cup DigitChars \cup {"_"}
\* \s, as far as the texts of the model go
SpaceChars == {" ", "\t", "\n", "\r"}

UpperSeq == "ABCDEFGHIJKLMNOPQRSTUVWXYZ"
LowerSeq == "abcdefghijklmnopqrstuvwxyz"

\* s.charAt(i - 1): "" outside the string
At(s, i) == IF 1 <= i /\ i <= Len(s) THEN SubSeq(s, i, i) ELSE ""

\* s.substring(i - 1, i - 1 + n): clamped to the string, as substring is
Sub(s, i, n) ==
    LET from == IF i < 1 THEN 1 ELSE i
        to   == IF i + n - 1 > Len(s) THEN Len(s) ELSE i + n - 1
    IN IF from > to THEN "" ELSE SubSeq(s, from, to)

\* every character of s[i .. i+n-1] exists and lies in class
AllIn(s, i, n, class) == \A j \in i..(i + n - 1) : At(s, j) \in class

\* \b between s[i-1] and s[i]
WordBoundary(s, i) == (At(s, i - 1) \in WordChars) # (At(s, i) \in WordChars)

\* String.prototype.includes
Includes(s, k) == \E i \in 1..(Len(s) - Len(k) + 1) : Sub(s, i, Len(k)) = k

LowerChar(c) ==
    IF c \in UpperChars
    THEN At(LowerSeq, CHOOSE i \in 1..26 : At(UpperSeq, i) = c)
    ELSE c

UpperChar(c) ==
    IF c \in LowerChars
    THEN At(UpperSeq, CHOOSE i \in 1..26 : At(LowerSeq, i) = c)
    ELSE c

RECURSIVE MapChars(_, _)
\* which = "lower": String.prototype.toLowerCase; "upper": toUpperCase
MapChars(s, which) ==
    IF s = "" THEN ""
    ELSE (IF which = "lower" THEN LowerChar(At(s, 1)) ELSE UpperChar(At(s, 1)))
         \o MapChars(SubSeq(s, 2, Len(s)), which)

toLowerCase(s) == MapChars(s, "lower")
toUpperCase(s) == MapChars(s, "upper")

-----------------------------------------------------------------------------
(* Document type detection                                                 *)

\* /\b[A-Z]{2,4}\d{6,10}\b/ matches at position i with k letters, d digits
VoterNoAt(s, i, k, d) ==
    /\ WordBoundary(s, i)
    /\ AllIn(s, i, k, UpperChars)
    /\ AllIn(s, i + k, d, DigitChars)
    /\ WordBoundary(s, i + k + d)

\* /\b[A-Z]{2,4}\d{6,10}\b/.test(s)
HasVoterNo(s) ==
    \E i \in 1..Len(s) : \E k \in 2..4 : \E d \in 6..10 : VoterNoAt(s, i, k, d)

\* /\b\d{4}\s?\d{4}\s?\d{4}\b/ matches at i with a and b separators (0 or 1)
Digits12At(s, i, a, b) ==
    /\ WordBoundary(s, i)
    /\ AllIn(s, i, 4, DigitChars)
    /\ AllIn(s, i + 4, a, SpaceChars)
    /\ AllIn(s, i + 4 + a, 4, DigitChars)
    /\ AllIn(s, i + 8 + a, b, SpaceChars)
    /\ AllIn(s, i + 8 + a + b, 4, DigitChars)
    /\ WordBoundary(s, i + 12 + a + b)

\* /\b\d{4}\s?\d{4}\s?\d{4}\b/.test(s)
HasDigits12(s) ==
    \E i \in 1..Len(s) : \E a \in 0..1 : \E b \in 0..1 : Digits12At(s, i, a, b)

\* detectDocType with the Aadhaar keywords tested before the voter keywords
detectDocTypeAadhaarFirst(text) ==
    LET lower == toLowerCase(text) IN
    IF Includes(lower, "aadhaar") \/ Includes(lower, "aadhar")
       \/ Includes(lower, "uidai")
       \/ Includes(lower, "government of india")
    THEN "aadhaar"
    ELSE IF Includes(lower, "election") \/ Includes(lower, "elector")
            \/ Includes(lower, "voter")
    THEN "voter"
    ELSE IF HasVoterNo(text) THEN "voter"
    ELSE IF HasDigits12(text) THEN "aadhaar"
    ELSE "unknown"

detectDocType(text) ==
    LET lower == toLowerCase(text) IN
    IF Includes(lower, "election") \/ Includes(lower, "elector")
       \/ Includes(lower, "voter")
    THEN "voter"
    ELSE IF Includes(lower, "aadhaar") \/ Includes(lower, "aadhar")
            \/ Includes(lower, "uidai")
            \/ Includes(lower, "government of india")
    THEN "aadhaar"
    ELSE IF HasVoterNo(text) THEN "voter"
    ELSE IF HasDigits12(text) THEN "aadhaar"
    ELSE "unknown"

-----------------------------------------------------------------------------
(* String helpers of the field extractors                                  *)

\* the length of the longest run of class characters that starts at s[i]
RECURSIVE RunLen(_, _, _)
RunLen(s, i, class) ==
    IF At(s, i) \in class THEN 1 + RunLen(s, i + 1, class) ELSE 0

\* String.prototype.trim
RECURSIVE TrimStart(_)
TrimStart(s) ==
    IF At(s, 1) \in SpaceChars THEN TrimStart(SubSeq(s, 2, Len(s))) ELSE s

RECURSIVE TrimEnd(_)
TrimEnd(s) ==
    IF At(s, Len(s)) \in SpaceChars THEN TrimEnd(SubSeq(s, 1, Len(s) - 1)) ELSE s

trim(s) == TrimEnd(TrimStart(s))

\* s.replace(/[class]+$/, "")
RECURSIVE StripTrailing(_, _)
StripTrailing(s, class) ==
    IF At(s, Len(s)) \in class
    THEN StripTrailing(SubSeq(s, 1, Len(s) - 1), class)
    ELSE s

\* s.replace(/^[^A-Za-z]+/, "")
RECURSIVE StripLeadingNonAlpha(_)
StripLeadingNonAlpha(s) ==
    IF s # "" /\ At(s, 1) \notin AlphaChars
    THEN StripLeadingNonAlpha(SubSeq(s, 2, Len(s)))
    ELSE s

\* the least element of a non-empty set of integers
Min(S) == CHOOSE x \in S : \A y \in S : x <= y

\* s.indexOf(k) + 1, or 0
IndexOf(s, k) ==
    LET hits == {i \in 1..(Len(s) - Len(k) + 1) : Sub(s, i, Len(k)) = k}
    IN IF hits = {} THEN 0 ELSE Min(hits)

\* s.split(k) for a non-empty separator k: a sequence of strings
RECURSIVE split(_, _)
split(s, k) ==
    LET i == IndexOf(s, k) IN
    IF i = 0 THEN <<s>>
    ELSE <<SubSeq(s, 1, i - 1)>> \o split(SubSeq(s, i + Len(k), Len(s)), k)

\* s.split(/\r?\n/): a "\r" right before the "\n" belongs to the separator
RECURSIVE SplitCrLf(_)
SplitCrLf(s) ==
    LET i == IndexOf(s, "\n") IN
    IF i = 0 THEN <<s>>
    ELSE <<IF At(s, i - 1) = "\r" THEN SubSeq(s, 1, i - 2) ELSE SubSeq(s, 1, i - 1)>>
         \o SplitCrLf(SubSeq(s, i + 1, Len(s)))

\* s.split(/\s+/) of a trimmed s
RECURSIVE SplitWords(_)
SplitWords(s) ==
    LET nonSpace == {At(s, j) : j \in 1..Len(s)} \ SpaceChars
        w == RunLen(s, 1, nonSpace)
    IN IF w = Len(s) THEN <<s>>
       ELSE <<SubSeq(s, 1, w)>>
            \o SplitWords(SubSeq(s, w + 1 + RunLen(s, w + 1, SpaceChars), Len(s)))

\* seq.map(f).filter(Boolean) with f = trim
RECURSIVE TrimmedNonEmpty(_)
TrimmedNonEmpty(seq) ==
    IF seq = <<>> THEN <<>>
    ELSE LET t == trim(Head(seq)) IN
         (IF t = "" THEN <<>> ELSE <<t>>) \o TrimmedNonEmpty(Tail(seq))

\* seq.join(k)
RECURSIVE join(_, _)
join(seq, k) ==
    IF seq = <<>> THEN ""
    ELSE IF Len(seq) = 1 THEN seq[1]
    ELSE seq[1] \o k \o join(Tail(seq), k)

\* s.replace(/\./g, "")
RECURSIVE RemoveDots(_)
RemoveDots(s) ==
    IF s = "" THEN ""
    ELSE (IF At(s, 1) = "." THEN "" ELSE At(s, 1)) \o RemoveDots(SubSeq(s, 2, Len(s)))

\* s.padStart(2, "0")
padStart2(s) == IF Len(s) = 0 THEN "00" ELSE IF Len(s) = 1 THEN "0" \o s ELSE s

\* the value of a string of decimal digits
DigitVal(c) == CHOOSE d \in 0..9 : At("0123456789", d + 1) = c
RECURSIVE DigitsVal(_)
DigitsVal(s) ==
    IF s = "" THEN 0
    ELSE 10 * DigitsVal(SubSeq(s, 1, Len(s) - 1)) + DigitVal(At(s, Len(s)))

\* parseInt(s, 10): leading white space, a sign, then the longest digit
\* prefix; [nan |-> TRUE] is NaN
parseInt(s) ==
    LET t == TrimStart(s)
        sg == IF At(t, 1) \in {"+", "-"} THEN 1 ELSE 0
        n == RunLen(t, 1 + sg, DigitChars)
        v == DigitsVal(Sub(t, 1 + sg, n))
    IN IF n = 0 THEN [nan |-> TRUE, val |-> 0]
       ELSE [nan |-> FALSE, val |-> IF At(t, 1) = "-" THEN 0 - v ELSE v]

-----------------------------------------------------------------------------
(* Name detection                                                          *)

\* The Devanagari entry of the source's list (between "aadhar" and "uidai")
\* is left out: SANY's lexer rejects those characters in a string. A line
\* that holds it holds a non-letter, and fails the letters-only test of
\* isName whether or not the blacklist catches it.
BLACKLIST == <<
    "government","govt","aadhaar","aadhar","uidai",
    "unique identification","india","இந்திய","அரசாங்கம்",
    "issue date","issue","enrolment","enrollment","address",
    "mobile","phone","dob","date of birth","பிறந்த",
    "male","female","ஆண்","பெண்","help","1800","www","http",
    "time","belated","epsom","solited","huet","ipe","tan","bbm",
    "sei","sam","icici","ligpibg","sotlingd","siren","ipibg","agsimuned",
    "proof","identity","citizenship","authentication","election","commission",
    "elector","photo","birth","date","age","father","soundar" >>

\* t.replace(/\s+\d{1,2}$/, ""): a final token of one or two digits goes,
\* with the white space before it
StripTrailingDigits(t) ==
    LET d == Len(t) - Len(StripTrailing(t, DigitChars))
        rest == SubSeq(t, 1, Len(t) - d)
    IN IF d \in 1..2 /\ At(rest, Len(rest)) \in SpaceChars
       THEN StripTrailing(rest, SpaceChars)
       ELSE t

\* the two replace(...).trim() steps isName and smartTitle share
CleanLine(line) == trim(StripTrailingDigits(trim(StripLeadingNonAlpha(line))))

isName(line) ==
    LET t == CleanLine(line)
        low == toLowerCase(t)
        words == SplitWords(t)
    IN IF \E b \in 1..Len(BLACKLIST) : Includes(low, BLACKLIST[b]) THEN FALSE
       \* /^[A-Za-z][A-Za-z\s.]+$/
       ELSE IF ~ ( /\ Len(t) >= 2
                   /\ At(t, 1) \in AlphaChars
                   /\ AllIn(t, 2, Len(t) - 1, AlphaChars \cup SpaceChars \cup {"."}) )
       THEN FALSE
       ELSE IF Len(t) < 4 \/ Len(t) > 50 THEN FALSE
       ELSE IF Len(words) >= 2
       THEN \E w \in 1..Len(words) : Len(RemoveDots(words[w])) >= 3
       ELSE Len(words[1]) >= 6

TitleWord(w) ==
    IF Len(RemoveDots(w)) <= 2 THEN toUpperCase(w)
    ELSE toUpperCase(At(w, 1)) \o toLowerCase(SubSeq(w, 2, Len(w)))

smartTitle(line) ==
    LET words == SplitWords(CleanLine(line))
    IN join([i \in 1..Len(words) |-> TitleWord(words[i])], " ")

-----------------------------------------------------------------------------
(* Date of birth                                                           *)

\* sanitizeDob without the test of the year
sanitizeDobAnyYear(raw) ==
    LET sep == IF Includes(raw, "/") THEN "/"
               ELSE IF Includes(raw, "-") THEN "-" ELSE "."
        parts == split(raw, sep)
    IN IF Len(parts) # 3 THEN Null
       ELSE padStart2(parts[1]) \o "/" \o padStart2(parts[2]) \o "/" \o parts[3]

sanitizeDob(raw) ==
    LET sep == IF Includes(raw, "/") THEN "/"
               ELSE IF Includes(raw, "-") THEN "-" ELSE "."
        parts == split(raw, sep)
        y == parseInt(parts[3])
    IN IF Len(parts) # 3 THEN Null
       \* a NaN year passes both comparisons
       ELSE IF ~ y.nan /\ (y.val < 1900 \/ y.val > 2020) THEN Null
       ELSE padStart2(parts[1]) \o "/" \o padStart2(parts[2]) \o "/" \o parts[3]

DateSeps == {"-", "/", "."}

\* the length of \d{1,2}[\-\/\.]\d{1,2}[\-\/\.]\d{4} matched at s[i], or 0
DateLenAt(s, i) ==
    LET d1 == RunLen(s, i, DigitChars)
        j  == i + d1 + 1
        d2 == RunLen(s, j, DigitChars)
        k  == j + d2 + 1
    IN IF /\ d1 \in 1..2 /\ At(s, i + d1) \in DateSeps
          /\ d2 \in 1..2 /\ At(s, j + d2) \in DateSeps
          /\ AllIn(s, k, 4, DigitChars)
       THEN d1 + d2 + 6
       ELSE 0

\* s[i ..] starts with k, letter case ignored (the i flag)
StartsWithI(s, i, k) == toLowerCase(Sub(s, i, Len(k))) = toLowerCase(k)

\* the length of (?:DOB|D0B|Date\s*of\s*Birth|Age) matched at s[i], or 0
DobLabelLenAt(s, i) ==
    IF StartsWithI(s, i, "DOB") \/ StartsWithI(s, i, "D0B") THEN 3
    ELSE IF StartsWithI(s, i, "Date")
    THEN LET a == i + 4 + RunLen(s, i + 4, SpaceChars)
             b == a + 2 + RunLen(s, a + 2, SpaceChars)
         IN IF StartsWithI(s, a, "of") /\ StartsWithI(s, b, "Birth")
            THEN b + 5 - i
            ELSE 0
    ELSE IF StartsWithI(s, i, "Age") THEN 3
    ELSE 0

\* where the date of the labelled pattern (step 1) starts when the pattern
\* matches at s[i], or 0: the label, then \s*[:/\-\s]+, then the date
LabelledDateAt(s, i) ==
    LET n == DobLabelLenAt(s, i)
        g == RunLen(s, i + n, SpaceChars \cup {":", "/", "-"})
    IN IF n > 0 /\ g > 0 /\ DateLenAt(s, i + n + g) > 0 THEN i + n + g ELSE 0

\* where the date of the Tamil-labelled pattern (step 2) starts when the
\* pattern matches at s[i], or 0
TamilDateFrom(s, j) ==
    LET a == j + RunLen(s, j, SpaceChars)
        b == IF At(s, a) \in {":", "/", "-"} THEN a + 1 ELSE a
        c == b + RunLen(s, b, SpaceChars)
    IN \* without the optional separator the two \s* runs are one run
       IF DateLenAt(s, c) > 0 THEN c ELSE 0

TamilDateAt(s, i) ==
    IF ~ StartsWithI(s, i, "பிறந்த") THEN 0
    ELSE LET p == i + Len("பிறந்த")
             q == p + RunLen(s, p, SpaceChars)
             long == IF StartsWithI(s, q, "நாள்")
                     THEN TamilDateFrom(s, q + Len("நாள்")) ELSE 0
         IN IF long > 0 THEN long ELSE TamilDateFrom(s, p)

\* the dates of line.match(/\b(date)\b/g), left to right, sanitized; the first
\* that sanitizeDob accepts, or Null
RECURSIVE FirstValidDate(_, _)
FirstValidDate(line, i) ==
    IF i > Len(line) THEN Null
    ELSE LET n == IF WordBoundary(line, i) THEN DateLenAt(line, i) ELSE 0
             ok == n > 0 /\ WordBoundary(line, i + n)
             d == IF ok THEN sanitizeDob(Sub(line, i, n)) ELSE Null
         IN IF d # Null THEN d
            ELSE FirstValidDate(line, IF ok THEN i + n ELSE i + 1)

RECURSIVE ScanLinesForDob(_)
ScanLinesForDob(lines) ==
    IF lines = <<>> THEN NotFound
    ELSE LET line == Head(lines)
             d == IF Includes(toLowerCase(line), "issue") THEN Null
                  ELSE FirstValidDate(line, 1)
         IN IF d # Null THEN d ELSE ScanLinesForDob(Tail(lines))

extractDobFromLines(text, lines) ==
    LET h1 == {i \in 1..Len(text) : LabelledDateAt(text, i) > 0}
        m1 == IF h1 = {} THEN Null
              ELSE LET at == LabelledDateAt(text, Min(h1))
                   IN sanitizeDob(Sub(text, at, DateLenAt(text, at)))
        h2 == {i \in 1..Len(text) : TamilDateAt(text, i) > 0}
        m2 == IF h2 = {} THEN Null
              ELSE LET at == TamilDateAt(text, Min(h2))
                   IN sanitizeDob(Sub(text, at, DateLenAt(text, at)))
    IN IF m1 # Null THEN m1
       ELSE IF m2 # Null THEN m2
       ELSE ScanLinesForDob(lines)

-----------------------------------------------------------------------------
(* Gender                                                                  *)

\* the alternatives of extractGender's pattern, in the pattern's order
GenderTokens ==
    << "Male", "Female", "MALE", "FEMALE", "ஆண்பால்", "பெண்பால்", "ஆண்", "பெண்" >>

\* the alternatives of /\b(...)\b/ that match at s[i]
GenderAltsAt(s, i) ==
    {a \in 1..Len(GenderTokens) :
        /\ WordBoundary(s, i)
        /\ Sub(s, i, Len(GenderTokens[a])) = GenderTokens[a]
        /\ WordBoundary(s, i + Len(GenderTokens[a]))}

extractGender(text) ==
    LET hits == {i \in 1..Len(text) : GenderAltsAt(text, i) # {}}
    IN IF hits = {} THEN NotFound
       ELSE LET m == GenderTokens[Min(GenderAltsAt(text, Min(hits)))]
            IN IF At(toLowerCase(m), 1) = "m" THEN "Male" ELSE "Female"

-----------------------------------------------------------------------------
(* Field extractors                                                        *)

\* r1Text.split(/\r?\n/).map((l) => l.trim()).filter(Boolean)
Lines(text) == TrimmedNonEmpty(SplitCrLf(text))

RECURSIVE FirstName(_)
\* the first line that isName accepts, title-cased
FirstName(lines) ==
    IF lines = <<>> THEN NotFound
    ELSE IF isName(Head(lines)) THEN smartTitle(Head(lines))
    ELSE FirstName(Tail(lines))

\* /\b(\d{4})\s{0,6}(\d{4})\s{0,6}(\d{4})\b/ matches at s[i]
AadhaarNoAt(s, i) ==
    LET a == RunLen(s, i + 4, SpaceChars)
        b == RunLen(s, i + 8 + a, SpaceChars)
    IN /\ WordBoundary(s, i)
       /\ AllIn(s, i, 4, DigitChars)
       /\ a <= 6
       /\ AllIn(s, i + 4 + a, 4, DigitChars)
       /\ b <= 6
       /\ AllIn(s, i + 8 + a + b, 4, DigitChars)
       /\ WordBoundary(s, i + 12 + a + b)

\* `${am[1]} ${am[2]} ${am[3]}` of the first match, or "Not found"
AadhaarNo(s) ==
    LET hits == {i \in 1..Len(s) : AadhaarNoAt(s, i)}
    IN IF hits = {} THEN NotFound
       ELSE LET i == Min(hits)
                a == RunLen(s, i + 4, SpaceChars)
                b == RunLen(s, i + 8 + a, SpaceChars)
            IN Sub(s, i, 4) \o " " \o Sub(s, i + 4 + a, 4)
               \o " " \o Sub(s, i + 8 + a + b, 4)

extractAadhaarFields(r1Text, r2Text) ==
    LET lines == Lines(r1Text)
    IN [ docType    |-> "Aadhaar Card",
         name       |-> FirstName(lines),
         dob        |-> extractDobFromLines(r1Text, lines),
         gender     |-> extractGender(r1Text),
         aadhaar    |-> AadhaarNo(r2Text),
         cardNo     |-> Null,
         fatherName |-> Null ]
\* the first match of /\b([A-Z]{2,4}\d{6,10})\b/, or "Not found"
CardNo(s) ==
    LET at(i) == {kd \in (2..4) \X (6..10) : VoterNoAt(s, i, kd[1], kd[2])}
        hits == {i \in 1..Len(s) : at(i) # {}}
    IN IF hits = {} THEN NotFound
       ELSE LET i == Min(hits)
                kd == CHOOSE x \in at(i) : TRUE
            IN Sub(s, i, kd[1] + kd[2])

\* where the greedy (?:\s+[A-Z][a-z]?)+ stops when it starts at s[j]; j itself
\* when not even one group matches
RECURSIVE NameGroupsEnd(_, _)
NameGroupsEnd(s, j) ==
    LET ws == RunLen(s, j, SpaceChars)
        up == j + ws
    IN IF ws >= 1 /\ At(s, up) \in UpperChars
       THEN NameGroupsEnd(s, IF At(s, up + 1) \in LowerChars THEN up + 2 ELSE up + 1)
       ELSE j

\* the length of ([A-Z][a-z]+(?:\s+[A-Z][a-z]?)+) matched at s[c], or 0
NameCapLenAt(s, c) ==
    LET low == RunLen(s, c + 1, LowerChars)
        e == NameGroupsEnd(s, c + 1 + low)
    IN IF At(s, c) \in UpperChars /\ low >= 1 /\ e > c + 1 + low
       THEN e - c
       ELSE 0

\* the numbers k of characters that .{0,3} may take when
\* /[Nn]ame.{0,3}(...)/ matches at s[i]
NameSkipsAt(s, i) ==
    IF Sub(s, i, 4) \notin {"Name", "name"} THEN {}
    ELSE {k \in 0..3 :
            /\ \A j \in (i + 4)..(i + 3 + k) : At(s, j) \notin {"", "\n", "\r"}
            /\ NameCapLenAt(s, i + 4 + k) > 0}

Max(S) == CHOOSE x \in S : \A y \in S : x >= y

\* m[1] of line.match(/[Nn]ame.{0,3}([A-Z][a-z]+(?:\s+[A-Z][a-z]?)+)/), or Null
LabelledName(line) ==
    LET hits == {i \in 1..Len(line) : NameSkipsAt(line, i) # {}}
    IN IF hits = {} THEN Null
       ELSE LET i == Min(hits)
                \* .{0,3} is greedy: the largest k that lets the rest match
                c == i + 4 + Max(NameSkipsAt(line, i))
            IN Sub(line, c, NameCapLenAt(line, c))

RECURSIVE VoterName(_)
VoterName(lines) ==
    IF lines = <<>> THEN NotFound
    ELSE LET line == Head(lines)
             low == toLowerCase(line)
             m == IF Includes(low, "father") \/ Includes(low, "soundar")
                  THEN Null ELSE LabelledName(line)
         IN IF m # Null THEN trim(m) ELSE VoterName(Tail(lines))

\* the place and length <<p, n>> of the group captured when
\* /Father'?s?\s*N[a-z]*\s*[;:\-]\s*([A-Za-z][A-Za-z\s]{2,30})/i matches at
\* s[i], or <<0, 0>>
FatherCapAt(s, i) ==
    LET p1 == i + 6
        p2 == IF At(s, p1) = "'" THEN p1 + 1 ELSE p1
        p3 == IF At(s, p2) \in {"s", "S"} THEN p2 + 1 ELSE p2
        p4 == p3 + RunLen(s, p3, SpaceChars)
        p5 == p4 + 1 + RunLen(s, p4 + 1, AlphaChars)
        p6 == p5 + RunLen(s, p5, SpaceChars)
        p7 == p6 + 1 + RunLen(s, p6 + 1, SpaceChars)
        r  == RunLen(s, p7 + 1, AlphaChars \cup SpaceChars)
    IN IF /\ StartsWithI(s, i, "Father")
          /\ At(s, p4) \in {"n", "N"}
          /\ At(s, p6) \in {";", ":", "-"}
          /\ At(s, p7) \in AlphaChars
          /\ r >= 2
       THEN <<p7, 1 + (IF r > 30 THEN 30 ELSE r)>>
       ELSE <<0, 0>>

\* m[1] of combined.match(/\b(Soundara[a-zA-Z]+)/), or Null
SoundaraName(s) ==
    LET hits == {i \in 1..Len(s) :
                    /\ WordBoundary(s, i)
                    /\ Sub(s, i, 8) = "Soundara"
                    /\ At(s, i + 8) \in AlphaChars}
    IN IF hits = {} THEN Null
       ELSE Sub(s, Min(hits), 8 + RunLen(s, Min(hits) + 8, AlphaChars))

FatherName(combined) ==
    LET hits == {i \in 1..Len(combined) : FatherCapAt(combined, i)[1] > 0}
    IN IF hits # {}
       THEN LET cap == FatherCapAt(combined, Min(hits))
            IN \* fM[1].trim().replace(/[0."'\s]+$/, "")
               StripTrailing(trim(Sub(combined, cap[1], cap[2])),
                             {"0", ".", "\"", "'"} \cup SpaceChars)
       ELSE IF SoundaraName(combined) # Null THEN SoundaraName(combined)
       ELSE NotFound

extractVoterFields(textOrig, text2x) ==
    LET combined == textOrig \o "\n" \o text2x
        lines == Lines(combined)
    IN [ docType    |-> "Voter ID",
         name       |-> VoterName(lines),
         dob        |-> extractDobFromLines(textOrig,
                            TrimmedNonEmpty(split(textOrig, "\n"))),
         gender     |-> IF extractGender(text2x) # NotFound
                        THEN extractGender(text2x)
                        ELSE extractGender(textOrig),
         aadhaar    |-> Null,
         cardNo     |-> CardNo(combined),
         fatherName |-> FatherName(combined) ]

-----------------------------------------------------------------------------
(* cropToBlob: the source rectangle handed to drawImage                    *)

\* Math.round(r * n) for a ratio r given in hundredths (0.33 is 33) and an
\* integer n >= 0: round half up. For the ratios runOcr uses the double
\* product r * n rounds as the exact product does (n up to 20000).
RoundRatio(r100, n) == (2 * r100 * n + 100) \div 200

\* the regions runOcr requests, in hundredths of the image
DetectRegion == [xR |-> 0,  yR |-> 0,  wR |-> 100, hR |-> 22]
VoterRegion  == [xR |-> 0,  yR |-> 0,  wR |-> 100, hR |-> 100]
AadhaarR1    == [xR |-> 33, yR |-> 10, wR |-> 67,  hR |-> 62]
AadhaarR2    == [xR |-> 5,  yR |-> 72, wR |-> 90,  hR |-> 12]
Regions      == {DetectRegion, VoterRegion, AadhaarR1, AadhaarR2}

\* the arguments 2..5 of drawImage: the source rectangle, in pixels
cropToBlob(iw, ih, reg) ==
    [ sx |-> RoundRatio(reg.xR, iw), sy |-> RoundRatio(reg.yR, ih),
      sw |-> RoundRatio(reg.wR, iw), sh |-> RoundRatio(reg.hR, ih) ]

NoRect == [sx |-> 0, sy |-> 0, sw |-> 0, sh |-> 0]

-----------------------------------------------------------------------------
(* The values of the component's state                                     *)

\* a JavaScript value that is null, undefined or an extracted record
JsNull      == [t |-> "null"]
JsUndefined == [t |-> "undefined"]
Rec(r)      == [t |-> "record", v |-> r]

\* statusMsg: the icon the message starts with and the text after it
NoStatus == [icon |-> "", text |-> ""]

\* localStorage.getItem(LS_KEY) === null
NoItem == [kind |-> "none"]

-----------------------------------------------------------------------------
(* The result cache: saveLastResult and loadLastResult                     *)

\* 24 * 60 * 60 * 1000
TTL == 86400000

\* What localStorage holds under LS_KEY. JSON.stringify and JSON.parse are
\* modelled by the JSON value itself: of a record of strings and nulls and a
\* number they are inverse to each other.
\*   [kind |-> "none"]   no item: getItem returns null
\*   [kind |-> "empty"]  the empty string
\*   [kind |-> "text"]   text that JSON.parse rejects
\*   [kind |-> "json", json |-> "null"]       the JSON text null
\*   [kind |-> "json", json |-> "number"]     a JSON number (or string, boolean)
\*   [kind |-> "json", json |-> "object", result |-> r, savedAt |-> a]
\*       an object; r is a Js value (JsUndefined: no "result" key), a is
\*       [is |-> "number", val |-> n], [is |-> "missing"], [is |-> "null"]
\*       or [is |-> "text"] (a string that is no number)
Envelope(r, a) == [kind |-> "json", json |-> "object", result |-> r, savedAt |-> a]
SavedAt(n)     == [is |-> "number", val |-> n]

\* Date.now() - savedAt > 24 * 60 * 60 * 1000. undefined and a non-numeric
\* string make the difference NaN, and NaN > x is false; null counts as 0,
\* and Date.now() itself is far beyond one day.
ExpiredNever(t, a) == FALSE
Expired(t, a) ==
    CASE a.is = "number" -> t - a.val > TTL
      [] a.is = "null"   -> TRUE
      [] OTHER           -> FALSE

\* saveLastResult(result) at time t: the new item. setFails: setItem throws
\* (the quota is exceeded, or the store is unavailable).
saveLastResult(rec, store, t, setFails) ==
    IF setFails THEN store ELSE Envelope(Rec(rec), SavedAt(t))

\* loadLastResult() at time t: what it returns, and the item it leaves.
\* getFails: the store is unavailable and getItem throws.
loadLastResult(store, t, getFails) ==
    IF getFails                                THEN [ret |-> JsNull, store |-> store]
    ELSE IF store.kind \in {"none", "empty"}   THEN [ret |-> JsNull, store |-> store]
    ELSE IF store.kind = "text"                THEN [ret |-> JsNull, store |-> store]
    \* destructuring null throws a TypeError, which the catch swallows
    ELSE IF store.json = "null"                THEN [ret |-> JsNull, store |-> store]
    \* destructuring a number gives undefined twice
    ELSE IF store.json = "number"              THEN [ret |-> JsUndefined, store |-> store]
    ELSE IF Expired(t, store.savedAt)          THEN [ret |-> JsNull, store |-> NoItem]
    ELSE [ret |-> store.result, store |-> store]

\* lastLoad before any call
NoLoad == [ret |-> JsNull, removed |-> FALSE]

\* [a, b, ...].filter((v) => v && v !== "Not found").length over the six
\* fields of a record
FoundCount(rec) ==
    Cardinality({f \in {"name", "dob", "gender", "aadhaar", "cardNo", "fatherName"} :
                    rec[f] \notin {Null, "", NotFound}})

\* the state of a component that is mounted on an empty store and idle
CompIdle ==
    /\ loading = FALSE /\ result = JsNull /\ stage = "" /\ progress = 0
    /\ statusMsg = NoStatus /\ storage = NoItem /\ now = 0 /\ timers = 0
    /\ runs = <<>> /\ extractLog = <<>> /\ lastLoad = NoLoad

FnIdle   == text1 = "" /\ text2 = "" /\ fnOp = "none" /\ fnOut = ""
CropIdle == imgW = 0 /\ imgH = 0 /\ cropRect = NoRect

-----------------------------------------------------------------------------
(* SpecDetect: detectDocType applied to bounded texts                      *)

DetectFrags ==
    << "ELECTION C", "Voter", "aadhaar", "UIDAI", "SOL3248432", "sol3248432",
       "1234 5678 9012", " ", "x", "7" >>

\* the number of fragments a detection text is made of, at most
MaxDetectFrags == 3

RECURSIVE Concat(_)
Concat(seq) == IF seq = <<>> THEN "" ELSE Head(seq) \o Concat(Tail(seq))

DetectTexts ==
    {Concat([i \in DOMAIN f |-> DetectFrags[f[i]]]) :
        f \in UNION {[1..n -> 1..Len(DetectFrags)] : n \in 0..MaxDetectFrags}}

InitDetect ==
    /\ CompIdle /\ CropIdle
    /\ text1 \in DetectTexts /\ text2 = "" /\ fnOp = "none" /\ fnOut = ""

Detect ==
    /\ fnOp = "none"
    /\ fnOp' = "detect"
    /\ fnOut' = detectDocType(text1)
    /\ UNCHANGED <<text1, text2, compVars, cropVars>>

SpecDetect == InitDetect /\ [][Detect]_vars

VoterKeywords   == {"election", "elector", "voter"}
AadhaarKeywords == {"aadhaar", "aadhar", "uidai", "government of india"}

\* s holds one of the keywords, in any letter case
HasKeyword(s, keywords) ==
    \E kw \in keywords : \E i \in 1..Len(s) :
        toLowerCase(Sub(s, i, Len(kw))) = kw

\* s holds a token (delimited on both sides by the end of the text or a
\* character that is no letter, digit or underscore) made of 2-4 characters
\* of letters followed by 6-10 digits
HasCardToken(s, letters) ==
    \E i \in 1..Len(s) : \E n \in 8..14 :
        /\ At(s, i - 1) \notin WordChars
        /\ At(s, i + n) \notin WordChars
        /\ \E k \in 2..4 :
              /\ n - k \in 6..10
              /\ \A j \in 0..(n - 1) :
                    At(s, i + j) \in (IF j < k THEN letters ELSE DigitChars)

\* s holds three groups of four digits, neighbours separated by at most one
\* white-space character, delimited as a token is
HasGroupedTwelve(s) ==
    \E i \in 1..Len(s) : \E g1 \in 0..1 : \E g2 \in 0..1 :
        LET second == i + 4 + g1
            third  == second + 4 + g2
        IN /\ At(s, i - 1) \notin WordChars
           /\ At(s, third + 4) \notin WordChars
           /\ \A j \in 0..3 : /\ At(s, i + j) \in DigitChars
                              /\ At(s, second + j) \in DigitChars
                              /\ At(s, third + j) \in DigitChars
           /\ g1 = 1 => At(s, i + 4) \in SpaceChars
           /\ g2 = 1 => At(s, second + 4) \in SpaceChars

\* the rules of the classifier in their priority order, the letters of a
\* card token drawn from the given class
ClassifyByRules(s, letters) ==
    CASE HasKeyword(s, VoterKeywords)   -> "voter"
      [] ~ HasKeyword(s, VoterKeywords) /\ HasKeyword(s, AadhaarKeywords)
                                        -> "aadhaar"
      [] ~ HasKeyword(s, VoterKeywords \cup AadhaarKeywords)
         /\ HasCardToken(s, letters)    -> "voter"
      [] ~ HasKeyword(s, VoterKeywords \cup AadhaarKeywords)
         /\ ~ HasCardToken(s, letters) /\ HasGroupedTwelve(s)
                                        -> "aadhaar"
      [] OTHER                          -> "unknown"

\* C7 (as claimed): detectDocType returns exactly one of voter / aadhaar /
\* unknown, by the rules in priority order: a voter keyword in any letter case
\* gives voter; else an Aadhaar keyword gives aadhaar; else a token of 2-4
\* letters (of either case) followed by 6-10 digits gives voter; else a
\* grouped 12-digit number gives aadhaar; else unknown.
C7_AnyCaseLetters ==
    fnOp = "detect" => fnOut = ClassifyByRules(text1, AlphaChars)

\* C7 (amended): the same, the token's 2-4 letters being upper-case letters.
C7_DetectByPriority ==
    fnOp = "detect" =>
        /\ fnOut \in {"voter", "aadhaar", "unknown"}
        /\ fnOut = ClassifyByRules(text1, UpperChars)

\* C7's case: the truncated voter keyword next to an Aadhaar keyword and a
\* 12-digit number, classified
C7_Witness ==
    /\ fnOp = "detect"
    /\ Includes(text1, "ELECTION C")
    /\ Includes(text1, "aadhaar")
    /\ Includes(text1, "1234 5678 9012")
    /\ fnOut = "voter"

-----------------------------------------------------------------------------
(* SpecExtract: the field extractors applied to bounded recognized texts   *)

ExtractLines ==
    << "SOL3248432", "Name: Karthikeyan S", "Father's Name: Soundararajan",
       "DOB: 05/07/1990", "Sex: Male", "Arun Kumar", "1234 5678 9012" >>

\* the number of lines the two recognized texts hold together, at most
MaxExtractLines == 3

\* the lines of seq that go to pass p, joined by line breaks
RECURSIVE PassText(_, _)
PassText(seq, p) ==
    IF seq = <<>> THEN ""
    ELSE IF Head(seq)[2] # p THEN PassText(Tail(seq), p)
    ELSE LET rest == PassText(Tail(seq), p)
         IN ExtractLines[Head(seq)[1]] \o (IF rest = "" THEN "" ELSE "\n" \o rest)

InitExtract ==
    /\ CompIdle /\ CropIdle
    /\ \E n \in 0..MaxExtractLines :
       \E seq \in [1..n -> (1..Len(ExtractLines)) \X (1..2)] :
          /\ text1 = PassText(seq, 1)
          /\ text2 = PassText(seq, 2)
    /\ fnOp = "none" /\ fnOut = ""

ExtractAadhaar ==
    /\ fnOp = "none"
    /\ fnOp' = "aadhaar"
    /\ fnOut' = extractAadhaarFields(text1, text2)
    /\ UNCHANGED <<text1, text2, compVars, cropVars>>

ExtractVoter ==
    /\ fnOp = "none"
    /\ fnOp' = "voter"
    /\ fnOut' = extractVoterFields(text1, text2)
    /\ UNCHANGED <<text1, text2, compVars, cropVars>>

NextExtract == ExtractAadhaar \/ ExtractVoter

SpecExtract == InitExtract /\ [][NextExtract]_vars

FieldNames == {"name", "dob", "gender", "aadhaar", "cardNo", "fatherName"}

\* C1: every field of a record that extractAadhaarFields or
\* extractVoterFields returns holds a non-empty value or "Not found", never
\* null, undefined or the empty string.
C1_NoNullField ==
    fnOp \in {"aadhaar", "voter"} =>
        \A f \in FieldNames : fnOut[f] \notin {Null, Undefined, ""}

\* the value a Voter field rule finds in one text alone
VoterFieldOf(f, t) ==
    CASE f = "cardNo"     -> CardNo(t)
      [] f = "name"       -> VoterName(Lines(t))
      [] f = "fatherName" -> FatherName(t)
      [] f = "dob"        -> extractDobFromLines(t, Lines(t))

\* C8: a Voter run finds each of cardNo, name, fatherName and dob when the
\* value stands in either one of the two passes; gender comes from the
\* enhanced pass when it matches there and from the plain pass otherwise.
C8_FoundInEitherPass ==
    fnOp = "voter" =>
        /\ \A f \in {"cardNo", "name", "fatherName", "dob"} :
              (VoterFieldOf(f, text1) # NotFound \/ VoterFieldOf(f, text2) # NotFound)
                  => fnOut[f] # NotFound
        /\ fnOut.gender = IF extractGender(text2) # NotFound
                          THEN extractGender(text2) ELSE extractGender(text1)

-----------------------------------------------------------------------------
(* SpecCrop: cropToBlob applied to bounded image sizes                     *)

\* the largest image width and height, in pixels
MaxDim == 60

InitCrop ==
    /\ CompIdle /\ FnIdle
    /\ imgW \in 1..MaxDim /\ imgH \in 1..MaxDim
    /\ cropRect = NoRect

Crop ==
    /\ \E reg \in Regions : cropRect' = cropToBlob(imgW, imgH, reg)
    /\ UNCHANGED <<imgW, imgH, compVars, fnVars>>

SpecCrop == InitCrop /\ [][Crop]_vars

\* C10: the source rectangle of every region runOcr requests lies inside the
\* image, for every image width and height.
C10_RectInsideImage ==
    /\ cropRect.sx + cropRect.sw <= imgW
    /\ cropRect.sy + cropRect.sh <= imgH

-----------------------------------------------------------------------------
(* SpecCache: saveLastResult, loadLastResult and the clock                 *)

\* records a run may have extracted
SampleAadhaar ==
    extractAadhaarFields("Arun Kumar\nDOB: 05/07/1990\nMale", "1234 5678 9012")
SampleVoter ==
    extractVoterFields("SOL3248432\nFather's Name: Soundararajan", "Sex: Male")
CacheRecords == {SampleAadhaar, SampleVoter}

\* items that saveLastResult did not write: another version of the page, a
\* browser extension, the user
ForeignItems ==
    { [kind |-> "empty"], [kind |-> "text"],
      [kind |-> "json", json |-> "null"], [kind |-> "json", json |-> "number"],
      Envelope(Rec(SampleAadhaar), [is |-> "missing"]),
      Envelope(Rec(SampleAadhaar), [is |-> "text"]),
      Envelope(Rec(SampleAadhaar), [is |-> "null"]),
      Envelope(JsUndefined, SavedAt(0)) }

\* the steps the clock advances by, in milliseconds
ClockSteps == {TTL \div 2, TTL + 1}

\* the clock stops after this many days
MaxDays == 3

InitCache == CompIdle /\ FnIdle /\ CropIdle

CacheSave(rec, setFails) ==
    /\ storage' = saveLastResult(rec, storage, now, setFails)
    /\ UNCHANGED <<loading, result, stage, progress, statusMsg, now, timers,
                   runs, extractLog, lastLoad, fnVars, cropVars>>

CacheLoad(getFails) ==
    LET r == loadLastResult(storage, now, getFails) IN
    /\ lastLoad' = [ret |-> r.ret, removed |-> r.store # storage]
    /\ storage' = r.store
    /\ UNCHANGED <<loading, result, stage, progress, statusMsg, now, timers,
                   runs, extractLog, fnVars, cropVars>>

Tick(d) ==
    /\ now + d <= MaxDays * TTL
    /\ now' = now + d
    /\ UNCHANGED <<loading, result, stage, progress, statusMsg, storage, timers,
                   runs, extractLog, lastLoad, fnVars, cropVars>>

ForeignWrite(item) ==
    /\ storage' = item
    /\ UNCHANGED <<loading, result, stage, progress, statusMsg, now, timers,
                   runs, extractLog, lastLoad, fnVars, cropVars>>

NextCache ==
    \/ \E rec \in CacheRecords, setFails \in BOOLEAN : CacheSave(rec, setFails)
    \/ \E getFails \in BOOLEAN : CacheLoad(getFails)
    \/ \E d \in ClockSteps : Tick(d)
    \/ \E item \in ForeignItems : ForeignWrite(item)

SpecCache == InitCache /\ [][NextCache]_vars

\* the item is an envelope with a numeric savedAt
HasSavedAt(store) ==
    store.kind = "json" /\ store.json = "object" /\ store.savedAt.is = "number"

\* the item is what saveLastResult writes
WellFormed(store) == HasSavedAt(store) /\ store.result.t = "record"

\* the age of the stored envelope at the current time
Age == now - storage.savedAt.val

\* C2 (as claimed): loadLastResult never returns a record whose age has
\* reached 24 hours; an entry whose age has reached 24 hours reads as null
\* and is removed.
C2_ExpiresAtTTL ==
    [][ /\ ( (\E f \in BOOLEAN : CacheLoad(f)) /\ HasSavedAt(storage)
             /\ lastLoad'.ret.t = "record" ) => Age < TTL
        /\ ( CacheLoad(FALSE) /\ HasSavedAt(storage) /\ Age >= TTL )
             => (lastLoad'.ret = JsNull /\ storage' = NoItem) ]_vars

\* C2 (amended): loadLastResult never returns a record whose age exceeds 24
\* hours; an entry older than 24 hours reads as null and is removed, and a
\* read of the emptied slot gives null again.
C2_ExpiresAfterTTL ==
    [][ /\ ( (\E f \in BOOLEAN : CacheLoad(f)) /\ HasSavedAt(storage)
             /\ lastLoad'.ret.t = "record" ) => Age <= TTL
        /\ ( CacheLoad(FALSE) /\ HasSavedAt(storage) /\ Age > TTL )
             => (lastLoad'.ret = JsNull /\ storage' = NoItem)
        /\ ( (\E f \in BOOLEAN : CacheLoad(f)) /\ storage = NoItem )
             => (lastLoad'.ret = JsNull /\ storage' = NoItem) ]_vars

\* C2's case: a read found an expired entry, returned null and removed it
C2_Witness ==
    lastLoad.removed /\ lastLoad.ret = JsNull /\ storage = NoItem /\ now > TTL

\* C9: a stored value that is no well-formed envelope, and a store that
\* throws, read as a miss: loadLastResult returns no record.
C9_CorruptReadsAsMiss ==
    [][ \A f \in BOOLEAN :
          (CacheLoad(f) /\ (f \/ ~ WellFormed(storage)))
              => lastLoad'.ret.t # "record" ]_vars

-----------------------------------------------------------------------------
(* Spec: the OcrScanner component, its uploads and its runs                *)

\* uploads that pick a file, at most
MaxRuns == 2

\* what the recognition of the detection crop may return
DetectTextsOfRun == {"ELECTION C", ""}

\* what the recognition of a region may return
RegionTexts ==
    { "",
      "SOL3248432\nName: Karthikeyan S\nDOB: 05/07/1990\nMale\n1234 5678 9012" }

\* the inner percentages Math.round(m.progress * 100) the logger reports
InnerPcts == {50, 90}

\* the messages of the errors the awaited calls reject with: cropToBlob and
\* enhancedBlob (lines 204, 206, 223, 225), and Tesseract.recognize
CropErrors == {"toBlob failed", "Image load failed"}
OcrErrors  == {"recognize failed"}

CropPcs  == {"detectCrop", "cropA", "cropB"}
OcrPcs   == {"detectOcr", "ocrA", "ocrB"}
Terminal == {"done", "failed"}

\* Math.round(p * s) for s given in hundredths and an integer p in 0..100:
\* round half up, but for the double product 90 * 0.35 = 31.499999999999996
ScaledPct(p, s100) ==
    IF p = 90 /\ s100 = 35 THEN 31 ELSE (2 * s100 * p + 100) \div 200

\* the value the onProg callback of a region's recognition publishes
InnerProgress(docType, pc, p) ==
    IF docType = "voter"
    THEN (IF pc = "ocrA" THEN 15 + ScaledPct(p, 35) ELSE 50 + ScaledPct(p, 40))
    ELSE (IF pc = "ocrA" THEN 15 + ScaledPct(p, 45) ELSE 62 + ScaledPct(p, 28))

\* n.toString() for 0 <= n <= 6
DigitStr(n) == At("0123456", n + 1)

\* statusMsg: icon names the emoji the message starts with
\*   "check" U+2705, "warning" U+26A0 U+FE0F, "cross" U+274C
Status(icon, text) == [icon |-> icon, text |-> text]

\* the initial statusMsg (lines 324-330)
RestoredStatus(saved) ==
    IF saved.t # "record" THEN NoStatus
    ELSE IF FoundCount(saved.v) >= 4
    THEN Status("check", "Restored from previous scan")
    ELSE Status("warning", "Restored (" \o DigitStr(FoundCount(saved.v)) \o " fields)")

\* the status of a finished run, its thresholds each one too high
ExtractedStatusAbove(extracted) ==
    LET found == FoundCount(extracted) IN
    IF found > 4 THEN Status("check", "Extraction successful")
    ELSE IF found > 2
    THEN Status("warning", "Partial: " \o DigitStr(found) \o " fields found")
    ELSE Status("cross", "Poor image quality -- try a clearer, well-lit photo")

\* the status of a finished run (lines 348-354); "--" stands for the dash
\* U+2014 of the source
ExtractedStatus(extracted) ==
    LET found == FoundCount(extracted) IN
    IF found >= 4 THEN Status("check", "Extraction successful")
    ELSE IF found >= 2
    THEN Status("warning", "Partial: " \o DigitStr(found) \o " fields found")
    ELSE Status("cross", "Poor image quality -- try a clearer, well-lit photo")

\* the status of the catch branch (line 360), with the message dropped
CatchStatusNoMessage(message) == Status("cross", "OCR error: ")
\* the status of the catch branch (line 360)
CatchStatus(message) == Status("cross", "OCR error: " \o message)

\* the file input is enabled (disabled={loading}), even while loading
UploadAlwaysEnabled == TRUE
\* the file input is enabled (disabled={loading})
UploadEnabled == ~ loading

\* what the component shows of statusMsg: the <p> that holds it is a child
\* of the results card, which is rendered only when result is truthy
RenderedStatus == IF result.t = "record" THEN statusMsg ELSE NoStatus

\* the items the store may hold when the component mounts
MountItems == {NoItem, Envelope(Rec(SampleAadhaar), SavedAt(0))}

\* the component mounts: both useState initialisers call loadLastResult.
\* The clock stands still here (a run only stamps what it saves); SpecCache
\* is where it advances.
Init ==
    /\ FnIdle /\ CropIdle
    /\ now = 0
    /\ \E item \in MountItems :
         LET first  == loadLastResult(item, now, FALSE)
             second == loadLastResult(first.store, now, FALSE)
         IN /\ result = first.ret
            /\ statusMsg = RestoredStatus(second.ret)
            /\ storage = second.store
            /\ lastLoad = [ret |-> second.ret, removed |-> second.store # first.store]
    /\ loading = FALSE /\ stage = "" /\ progress = 0
    /\ timers = 0 /\ runs = <<>> /\ extractLog = <<>>

\* the crop and enhancement calls of runOcr (lines 248, 257, 264, 278, 286)
CropDetect  == "cropToBlob(0, 0, 1, 0.22)"
CropFull    == "cropToBlob(0, 0, 1, 1)"
Enhance2x   == "enhancedBlob(2, 180)"
CropRegionA == "cropToBlob(0.33, 0.10, 0.67, 0.62)"
CropRegionB == "cropToBlob(0.05, 0.72, 0.90, 0.12)"

\* a run right after handleUpload called runOcr. calls lists the calls the
\* run has started: a crop or enhancement with its arguments, an ocrBlob call
\* by its label
NewRun == [pc |-> "detectCrop", docType |-> "", textA |-> "",
           calls |-> <<CropDetect>>]

\* handleUpload with a file, up to runOcr's first await
Upload ==
    /\ UploadEnabled
    /\ Len(runs) < MaxRuns
    /\ loading' = TRUE
    /\ result' = JsNull
    /\ statusMsg' = NoStatus
    /\ stage' = "Detecting document type..."
    /\ progress' = 5
    /\ runs' = Append(runs, NewRun)
    /\ UNCHANGED <<storage, now, timers, extractLog, lastLoad, fnVars, cropVars>>

\* handleUpload when the file dialog was cancelled: e.target.files[0] is
\* undefined
UploadNoFile ==
    /\ UploadEnabled
    /\ UNCHANGED vars

\* the awaited cropToBlob or enhancedBlob resolves: ocrBlob starts
CropDone(r) ==
    LET run == runs[r]
        label == CASE run.pc = "detectCrop" -> "detect"
                   [] run.pc = "cropA" ->
                        IF run.docType = "voter" THEN "voter-orig" ELSE "aadhaar-r1"
                   [] run.pc = "cropB" ->
                        IF run.docType = "voter" THEN "voter-2x" ELSE "aadhaar-r2"
        next == CASE run.pc = "detectCrop" -> "detectOcr"
                  [] run.pc = "cropA" -> "ocrA"
                  [] run.pc = "cropB" -> "ocrB"
    IN /\ run.pc \in CropPcs
       /\ runs' = [runs EXCEPT ![r].pc = next,
                               ![r].calls = Append(@, label)]
       /\ UNCHANGED <<loading, result, stage, progress, statusMsg, storage, now,
                      timers, extractLog, lastLoad, fnVars, cropVars>>

\* the recognition of the detection crop resolves: the type is decided and
\* the first region is requested
DetectDone(r, text) ==
    LET docType == detectDocType(text) IN
    /\ runs[r].pc = "detectOcr"
    /\ stage' = IF docType = "voter" THEN "Scanning Voter ID (standard)..."
                ELSE "Scanning name & DOB area..."
    /\ progress' = 15
    /\ runs' = [runs EXCEPT ![r].pc = "cropA", ![r].docType = docType,
                            ![r].calls = Append(@,
                                IF docType = "voter" THEN CropFull
                                ELSE CropRegionA)]
    /\ UNCHANGED <<loading, result, statusMsg, storage, now, timers,
                   extractLog, lastLoad, fnVars, cropVars>>

\* the logger of a region's recognition reports "recognizing text" at p
OcrProgress(r, p) ==
    /\ runs[r].pc \in {"ocrA", "ocrB"}
    /\ progress' = InnerProgress(runs[r].docType, runs[r].pc, p)
    /\ UNCHANGED <<loading, result, stage, statusMsg, storage, now, timers,
                   runs, extractLog, lastLoad, fnVars, cropVars>>

\* the recognition of the first region resolves: the second is requested
OcrADone(r, text) ==
    /\ runs[r].pc = "ocrA"
    /\ stage' = IF runs[r].docType = "voter" THEN "Scanning Voter ID (enhanced)..."
                ELSE "Scanning Aadhaar number..."
    /\ progress' = IF runs[r].docType = "voter" THEN 50 ELSE 62
    /\ runs' = [runs EXCEPT ![r].pc = "cropB", ![r].textA = text,
                            ![r].calls = Append(@,
                                IF runs[r].docType = "voter" THEN Enhance2x
                                ELSE CropRegionB)]
    /\ UNCHANGED <<loading, result, statusMsg, storage, now, timers,
                   extractLog, lastLoad, fnVars, cropVars>>

\* the record runOcr would return if every branch used the Aadhaar rules
ExtractedByAadhaarRules ==
    [docType \in {"voter", "aadhaar", "unknown"}, textA \in RegionTexts, textB \in RegionTexts |->
        extractAadhaarFields(textA, textB)]

\* the record runOcr returns for a type and the texts of the two regions
\* (lines 270 and 292), tabulated over the texts of the model
Extracted ==
    [docType \in {"voter", "aadhaar", "unknown"}, textA \in RegionTexts, textB \in RegionTexts |->
        IF docType = "voter" THEN extractVoterFields(textA, textB)
        ELSE extractAadhaarFields(textA, textB)]

\* the recognition of the second region resolves: runOcr returns the record
\* and handleUpload's try and finally blocks run to their end
OcrBDone(r, text, setFails) ==
    /\ runs[r].pc = "ocrB"
    /\ \E extracted \in {Extracted[runs[r].docType, runs[r].textA, text]} :
         /\ result' = Rec(extracted)
         /\ progress' = 100
         /\ storage' = saveLastResult(extracted, storage, now, setFails)
         /\ statusMsg' = ExtractedStatus(extracted)
         /\ extractLog' = Append(extractLog, extracted)   \* the parent's onExtract
    /\ loading' = FALSE
    /\ stage' = ""
    /\ timers' = timers + 1
    /\ runs' = [runs EXCEPT ![r].pc = "done", ![r].textA = ""]
    /\ UNCHANGED <<now, lastLoad, fnVars, cropVars>>

\* the awaited call rejects: the catch and finally blocks run
Reject(r, message) ==
    /\ \/ runs[r].pc \in CropPcs /\ message \in CropErrors
       \/ runs[r].pc \in OcrPcs /\ message \in OcrErrors
    /\ statusMsg' = CatchStatus(message)
    /\ loading' = FALSE
    /\ stage' = ""
    /\ timers' = timers + 1
    /\ runs' = [runs EXCEPT ![r].pc = "failed", ![r].textA = ""]
    /\ UNCHANGED <<result, progress, storage, now, extractLog, lastLoad,
                   fnVars, cropVars>>

\* a timer of a finally block fires: setProgress(0)
TimerFire ==
    /\ timers > 0
    /\ timers' = timers - 1
    /\ progress' = 0
    /\ UNCHANGED <<loading, result, stage, statusMsg, storage, now, runs,
                   extractLog, lastLoad, fnVars, cropVars>>

\* the Clear button of the results card
ClearClick ==
    /\ result.t = "record"
    /\ storage' = NoItem
    /\ result' = JsNull
    /\ statusMsg' = NoStatus
    /\ UNCHANGED <<loading, stage, progress, now, timers, runs, extractLog,
                   lastLoad, fnVars, cropVars>>

Next ==
    \/ Upload
    \/ UploadNoFile
    \/ \E r \in DOMAIN runs : CropDone(r)
    \/ \E r \in DOMAIN runs, text \in DetectTextsOfRun : DetectDone(r, text)
    \/ \E r \in DOMAIN runs, p \in InnerPcts : OcrProgress(r, p)
    \/ \E r \in DOMAIN runs, text \in RegionTexts : OcrADone(r, text)
    \/ \E r \in DOMAIN runs, text \in RegionTexts, setFails \in BOOLEAN :
          OcrBDone(r, text, setFails)
    \/ \E r \in DOMAIN runs, message \in CropErrors \cup OcrErrors :
          Reject(r, message)
    \/ TimerFire
    \/ ClearClick

Spec == Init /\ [][Next]_vars

\* the runs that have not reached a terminal state
ActiveRuns == {r \in DOMAIN runs : runs[r].pc \notin Terminal}

\* the runs whose ocrBlob call has started and not yet settled
InFlight == {r \in DOMAIN runs : runs[r].pc \in OcrPcs}

\* the labels of runOcr's ocrBlob calls
OcrLabels == {"detect", "voter-orig", "voter-2x", "aadhaar-r1", "aadhaar-r2"}

IsOcrCall(call) == call \in OcrLabels

\* the ocrBlob calls of a run, in the order they started
OcrCalls(calls) == SelectSeq(calls, IsOcrCall)

IsPrefix(s, t) == Len(s) <= Len(t) /\ SubSeq(t, 1, Len(s)) = s

VoterPlan   == <<"detect", "voter-orig", "voter-2x">>
AadhaarPlan == <<"detect", "aadhaar-r1", "aadhaar-r2">>

\* C3: when a crop, enhancement or recognition call rejects, the run ends
\* there: it starts no further call and stays failed, the displayed result
\* stays null, nothing is written to the cache, onExtract is not called, and
\* the status message carries the rejection's message.
C3_RejectionAbortsRun ==
    [][ /\ \A r \in DOMAIN runs, message \in CropErrors \cup OcrErrors :
             Reject(r, message) =>
                /\ runs'[r].pc = "failed"
                /\ runs'[r].calls = runs[r].calls
                /\ result' = JsNull
                /\ storage' = storage
                /\ extractLog' = extractLog
                /\ statusMsg'.text = "OCR error: " \o message
        /\ \A r \in DOMAIN runs :
             runs[r].pc = "failed" => runs'[r] = runs[r] ]_vars

\* a run was aborted by the rejection of its last recognition, after a cache
\* entry had been written by an earlier run
C3_Witness ==
    \E r \in DOMAIN runs :
        /\ runs[r].pc = "failed"
        /\ OcrCalls(runs[r].calls) \in {VoterPlan, AadhaarPlan}
        /\ r = Len(runs)
        /\ ~ loading
        /\ statusMsg = Status("cross", "OCR error: recognize failed")
        /\ result = JsNull
        /\ storage # NoItem

\* C4: after a failed run the user is shown the failure: the status message
\* set by the catch branch is part of what the component renders.
C4_FailureMessageShown ==
    (\E message \in CropErrors \cup OcrErrors : statusMsg = CatchStatus(message))
        => RenderedStatus = statusMsg

\* C5: while a run has not reached its terminal state, no setProgress call of
\* the run lowers the progress value, whatever percentages in 0..100 the
\* recognition reports, and the value stays within 0..100.
C5_ProgressMonotone ==
    [][ (ActiveRuns # {} /\ ~ TimerFire)
            => (progress' >= progress /\ progress' \in 0..100) ]_vars

\* C6: at most one ocrBlob call is in flight at any time, at most one run is
\* active, the file input is disabled while a run is active, and a run's
\* recognitions start in the order of its plan.
C6_OneRecognitionInFlight ==
    /\ Cardinality(InFlight) <= 1
    /\ Cardinality(ActiveRuns) <= 1
    /\ (ActiveRuns # {} => ~ UploadEnabled)
    /\ \A r \in DOMAIN runs :
          IF runs[r].docType = "voter"
          THEN IsPrefix(OcrCalls(runs[r].calls), VoterPlan)
          ELSE IsPrefix(OcrCalls(runs[r].calls), AadhaarPlan)

\* the second run has its last recognition in flight after the first run ended
C6_Witness ==
    /\ Len(runs) = 2
    /\ runs[1].pc \in Terminal
    /\ runs[2].pc = "ocrB"
    /\ loading

-----------------------------------------------------------------------------
(* SpecStatus: the status handleUpload computes for an extracted record     *)

\* what a field of an extracted record may hold: null (not defined for the
\* document type), the sentinel, the empty string, a value
StatusFieldValues == {Null, NotFound, "", "SOL3248432"}

StatusRecords ==
    { [docType |-> "Voter ID", name |-> n, dob |-> d, gender |-> g,
       aadhaar |-> a, cardNo |-> c, fatherName |-> f] :
         n \in StatusFieldValues, d \in StatusFieldValues,
         g \in StatusFieldValues, a \in StatusFieldValues,
         c \in StatusFieldValues, f \in StatusFieldValues }

InitStatus == CompIdle /\ FnIdle /\ CropIdle

\* the success path of handleUpload from setResult(extracted) to the
\* setStatusMsg call (lines 346-354), for a record runOcr resolved with
SetStatus ==
    /\ result = JsNull
    /\ \E extracted \in StatusRecords :
          /\ result' = Rec(extracted)
          /\ statusMsg' = ExtractedStatus(extracted)
    /\ UNCHANGED <<loading, stage, progress, storage, now, timers, runs,
                   extractLog, lastLoad, fnVars, cropVars>>

SpecStatus == InitStatus /\ [][SetStatus]_vars

\* the fields of a record that hold a real value
RealFields(rec) == {f \in FieldNames : rec[f] \notin {Null, NotFound, ""}}

\* C11: the status of a successful run depends only on the number n of fields
\* that hold a real value: n >= 4 gives Success, 2 <= n <= 3 gives Partial
\* (naming n), n <= 1 gives Poor.
C11_StatusByCount ==
    result.t = "record" =>
        LET n == Cardinality(RealFields(result.v)) IN
        /\ n >= 4 => statusMsg = Status("check", "Extraction successful")
        /\ n \in 2..3 =>
              statusMsg = Status("warning", "Partial: " \o DigitStr(n) \o " fields found")
        /\ n <= 1 => /\ statusMsg.icon = "cross"
                     /\ Sub(statusMsg.text, 1, 18) = "Poor image quality"

\* a record with exactly four real values, two sentinels: Success
C11_Witness ==
    /\ result.t = "record"
    /\ Cardinality(RealFields(result.v)) = 4
    /\ Cardinality({f \in FieldNames : result.v[f] = NotFound}) = 2
    /\ statusMsg = Status("check", "Extraction successful")

-----------------------------------------------------------------------------
(* SpecDob: sanitizeDob applied to the candidates its callers hand it, and  *)
(* to what it returned                                                      *)

\* the components \d{1,2}, \d{1,2} and \d{4} of a candidate; a year with its
\* value
DobDays   == {"5", "05", "31", "0"}
DobMonths == {"7", "07", "12", "1"}
DobYears  == { [s |-> "0190", n |-> 190],   [s |-> "1899", n |-> 1899],
               [s |-> "1900", n |-> 1900],  [s |-> "1990", n |-> 1990],
               [s |-> "2020", n |-> 2020],  [s |-> "2021", n |-> 2021] }

\* the candidates: the date pattern of extractDobFromLines lets the two
\* separators differ
DobCandidates ==
    { d \o s1 \o m \o s2 \o y.s :
        d \in DobDays, m \in DobMonths, y \in DobYears,
        s1 \in DateSeps, s2 \in DateSeps }

InitDob ==
    /\ CompIdle /\ CropIdle
    /\ text1 \in DobCandidates /\ text2 = "" /\ fnOp = "none" /\ fnOut = ""

\* const s = sanitizeDob(m1[1])
Sanitize ==
    /\ fnOp = "none"
    /\ fnOp' = "sanitizeDob"
    /\ fnOut' = sanitizeDob(text1)
    /\ UNCHANGED <<text1, text2, compVars, cropVars>>

\* sanitizeDob applied to the value it returned, which text2 keeps
SanitizeAgain ==
    /\ fnOp = "sanitizeDob"
    /\ fnOut # Null
    /\ fnOp' = "sanitizeDobAgain"
    /\ text2' = fnOut
    /\ fnOut' = sanitizeDob(fnOut)
    /\ UNCHANGED <<text1, compVars, cropVars>>

NextDob == Sanitize \/ SanitizeAgain

SpecDob == InitDob /\ [][NextDob]_vars

\* a component of one or two digits, zero-padded to width 2
PaddedTo2(c) == IF Len(c) = 1 THEN "0" \o c ELSE c

\* C12: for a date of three components written with one separator ('/', '-'
\* or '.'), sanitizeDob returns null when the year is outside 1900..2020 and
\* otherwise DD/MM/YYYY, day and month zero-padded to width 2; sanitizeDob
\* applied to a value it returned gives that value back.
C12_SanitizeDob ==
    /\ fnOp = "sanitizeDob" =>
          \A d \in DobDays, m \in DobMonths, y \in DobYears, sep \in DateSeps :
              text1 = d \o sep \o m \o sep \o y.s =>
                 fnOut = IF y.n < 1900 \/ y.n > 2020 THEN Null
                         ELSE PaddedTo2(d) \o "/" \o PaddedTo2(m) \o "/" \o y.s
    /\ fnOp = "sanitizeDobAgain" => fnOut = text2

\* a date written with '-' and unpadded, normalized, and sanitized again
C12_Witness ==
    /\ fnOp = "sanitizeDobAgain"
    /\ text1 = "5-7-1990"
    /\ text2 = "05/07/1990"
    /\ fnOut = "05/07/1990"

-----------------------------------------------------------------------------
(* SpecGender: extractGender applied to texts of at most two gender words   *)

\* the gender words of the two scripts, English in three letter cases
MaleWords   == {"Male", "MALE", "male", "ஆண்", "ஆண்பால்"}
FemaleWords == {"Female", "FEMALE", "female", "பெண்", "பெண்பால்"}

\* what stands before the first word and between the words
GenderLeads == {"", "Sex: "}
GenderGaps  == {" ", "\n"}

\* lead, a word or nothing, gap, a word or nothing
GenderTexts ==
    { lead \o w1 \o gap \o w2 :
        lead \in GenderLeads, gap \in GenderGaps,
        w1 \in MaleWords \cup FemaleWords \cup {""},
        w2 \in MaleWords \cup FemaleWords \cup {""} }

InitGender ==
    /\ CompIdle /\ CropIdle
    /\ text1 \in GenderTexts /\ text2 = "" /\ fnOp = "none" /\ fnOut = ""

\* const gender = extractGender(r1Text)
ExtractGender ==
    /\ fnOp = "none"
    /\ fnOp' = "extractGender"
    /\ fnOut' = extractGender(text1)
    /\ UNCHANGED <<text1, text2, compVars, cropVars>>

SpecGender == InitGender /\ [][ExtractGender]_vars

\* the gender a text of words w1 and w2 (either may be missing) states first
FirstGender(w1, w2) ==
    LET w == IF w1 # "" THEN w1 ELSE w2 IN
    IF w \in MaleWords THEN "Male"
    ELSE IF w \in FemaleWords THEN "Female" ELSE NotFound

\* C13: extractGender returns "Male" when the first gender word of the text
\* is a male word and "Female" when it is a female word, for English words in
\* any letter case and for the Tamil words, and "Not found" exactly when the
\* text holds no gender word.
C13_GenderOfFirstToken ==
    fnOp = "extractGender" =>
        \A lead \in GenderLeads, gap \in GenderGaps,
           w1 \in MaleWords \cup FemaleWords \cup {""},
           w2 \in MaleWords \cup FemaleWords \cup {""} :
              text1 = lead \o w1 \o gap \o w2 => fnOut = FirstGender(w1, w2)

-----------------------------------------------------------------------------
(* extractVoterFields on texts with a father's-name label (SpecExtract)     *)

\* one of the two passes holds the line
InEitherPass(line) == Includes(text1, line) \/ Includes(text2, line)

\* C14: when the combined Voter text holds the card number SOL3248432 and
\* the line "Father's Name: Soundararajan" and no line that labels the
\* holder's name, wherever the lines sit in the two passes, extractVoterFields
\* returns that card number, fatherName exactly "Soundararajan" and name
\* "Not found".
C14_FatherNameOfLabelLine ==
    ( /\ fnOp = "voter"
      /\ InEitherPass("SOL3248432")
      /\ InEitherPass("Father's Name: Soundararajan")
      /\ ~ InEitherPass("Name: Karthikeyan S") )
    => /\ fnOut.cardNo = "SOL3248432"
       /\ fnOut.fatherName = "Soundararajan"
       /\ fnOut.name = NotFound

-----------------------------------------------------------------------------
(* The reset timer and later runs (Spec)                                    *)

\* C15: the reset timer of a finished run sets progress to 0 only while no
\* run is active, so it never lowers the progress of a later run.
C15_ResetOnlyWhenIdle ==
    [][ TimerFire => ActiveRuns = {} ]_vars

-----------------------------------------------------------------------------
(* SpecPlan: the runs of the component over detection texts of every class  *)

\* uploads that pick a file, at most
MaxPlanRuns == 1

\* what the recognition of the detection crop may return: texts of the three
\* classes, by keyword and by number pattern
PlanDetectTexts ==
    { "ELECTION C", "SOL3248432", "voter 1234 5678 9012",
      "UIDAI", "1234 5678 9012", "", "sol3248432" }

InitPlan == Init

NextPlan ==
    \/ Len(runs) < MaxPlanRuns /\ Upload
    \/ \E r \in DOMAIN runs : CropDone(r)
    \/ \E r \in DOMAIN runs, text \in PlanDetectTexts : DetectDone(r, text)
    \/ \E r \in DOMAIN runs, p \in InnerPcts : OcrProgress(r, p)
    \/ \E r \in DOMAIN runs, text \in RegionTexts : OcrADone(r, text)
    \/ \E r \in DOMAIN runs, text \in RegionTexts, setFails \in BOOLEAN :
          OcrBDone(r, text, setFails)
    \/ \E r \in DOMAIN runs, message \in CropErrors \cup OcrErrors :
          Reject(r, message)
    \/ TimerFire
    \/ ClearClick

SpecPlan == InitPlan /\ [][NextPlan]_vars

\* the calls of a finished run, by branch
VoterCalls ==
    <<CropDetect, "detect", CropFull, "voter-orig", Enhance2x, "voter-2x">>
AadhaarCalls ==
    <<CropDetect, "detect", CropRegionA, "aadhaar-r1", CropRegionB, "aadhaar-r2">>

\* the field rules of each type over the texts of the model
VoterRules ==
    [textA \in RegionTexts, textB \in RegionTexts |-> extractVoterFields(textA, textB)]
AadhaarRules ==
    [textA \in RegionTexts, textB \in RegionTexts |-> extractAadhaarFields(textA, textB)]

\* C16: the type decided by the one classification of the detection text
\* fixes the rest of the run. It is never decided again; a run classified
\* voter crops the full image and the 2x / 180% enhancement and returns what
\* extractVoterFields makes of the two texts, a "Voter ID" record; a run
\* classified aadhaar or unknown crops regions A and B and returns what
\* extractAadhaarFields makes of them, an "Aadhaar Card" record.
C16_TypeFixesPlan ==
    [][ \A r \in DOMAIN runs :
          /\ \A text \in PlanDetectTexts :
                DetectDone(r, text) => runs'[r].docType = detectDocType(text)
          /\ runs[r].docType # "" =>
                /\ runs'[r].docType = runs[r].docType
                /\ IsPrefix(runs'[r].calls,
                            IF runs[r].docType = "voter" THEN VoterCalls
                            ELSE AadhaarCalls)
          /\ (runs[r].pc = "ocrB" /\ runs'[r].pc = "done") =>
                /\ runs[r].docType \in {"voter", "aadhaar", "unknown"}
                /\ runs'[r].calls = IF runs[r].docType = "voter" THEN VoterCalls
                                    ELSE AadhaarCalls
                /\ result'.v.docType = IF runs[r].docType = "voter" THEN "Voter ID"
                                       ELSE "Aadhaar Card"
                /\ \E text \in RegionTexts :
                      result'.v = IF runs[r].docType = "voter"
                                  THEN VoterRules[runs[r].textA, text]
                                  ELSE AadhaarRules[runs[r].textA, text] ]_vars

\* a run whose detection text was of no known class has finished on the
\* Aadhaar plan
C16_Witness ==
    \E r \in DOMAIN runs :
        /\ runs[r].pc = "done"
        /\ runs[r].docType = "unknown"
        /\ runs[r].calls = AadhaarCalls
        /\ result.t = "record"
        /\ result.v.docType = "Aadhaar Card"

====
